---- MODULE Spec2Model ----
(***************************************************************************)
(* Model of the CacheManager of src/components/ClientSideFeatures.ts: a    *)
(* Map from string keys to {value, timestamp} entries with capacity        *)
(* eviction on set, destructive expiry on get, an interval sweep and       *)
(* clear.  The Map is modelled as the sequence of its entries in insertion *)
(* order, which is the order Map.forEach visits them in.                   *)
(* Spec is the CacheManager on its own.  ApiSpec is the ApiClient of the   *)
(* same file: request calls with their retry loop, the fetch of            *)
(* executeRequest with its abort timer, the AuthenticationManager token    *)
(* and the client's own CacheManager.  Times of ApiSpec are milliseconds.  *)
(* TermSpec is ApiSpec's request with fair timers, RaceSpec two concurrent *)
(* request calls, KeySpec the cache key of request over bodies.  PanelSpec *)
(* is the App with its Router, LoaderSpec the ModuleLoader, AuthSpec the   *)
(* AuthenticationManager with its refresh interval, RunnerSpec the test    *)
(* runner of TestingExploration.                                           *)
(***************************************************************************)
EXTENDS Integers, Sequences, FiniteSets, TLC

\* ---------------------------------------------------------------- bounds
MaxTime == 3
MaxSizeBound == 2
MaxAgeBound == 1
\* ApiSpec: the clock stops after this many backoff units; retryAttempts
\* ranges over 1..MaxRetry.
MaxApiTicks == 3
MaxRetry == 3
\* KeySpec: a body is an object of at most this many fields.
MaxFields == 2
\* PanelSpec: the session history holds at most this many entries.
MaxHistory == 3
\* LoaderSpec: import() is called at most this many times.
MaxImports == 3
\* AuthSpec: the clock stops after this many interval periods; at most
\* MaxPending login calls and MaxPending refreshes are in flight.
MaxAuthTicks == 3
MaxPending == 2
\* AuthSpec: setInterval is called at most this many times.
MaxIntervals == 3
\* RunnerSpec: the Run All Tests button is clicked at most this many times.
MaxRuns == 2

\* ---------------------------------------------------------------- inputs
\* String keys; "" is the one string JavaScript treats as falsy.
Keys == {"", "a", "b"}
\* Stored values; 0 is a falsy JavaScript value, 1 a truthy one.
Values == {0, 1}
\* JavaScript null, as returned by get for an absent or expired key.
Null == -1

VARIABLES
    cache,       \* CacheManager.cache: entries in Map insertion order
    options,     \* CacheManager.options: [maxAge, maxSize]
    now,         \* Date.now()
    sweepTimer,  \* the setInterval registration made by setupCleanupInterval
    discarded,   \* the owner has dropped its reference to the cache
    last,        \* the last cache operation: its arguments, result, state before
    purged,      \* keys deleted by an expired get and not set again since
    run,         \* keys set so far while nothing but sets of distinct keys happened
    config,      \* ApiClient.config: [timeout, retryAttempts]
    auth,        \* AuthenticationManager.currentToken
    calls,       \* the request calls of the ApiClient, one record per call slot
    reqs,        \* request arguments and the cache keys computed from them
    done,        \* slots whose call resolved by a successful attempt, in that order
    app,         \* App and Router: current panel, routes, history, panels
    loader,      \* ModuleLoader: loadedModules, loading and the imports in flight
    refresh,     \* AuthenticationManager: refreshInterval and refreshes in flight
    runner       \* TestingExploration: results and the runAllTests calls

apiVars == <<config, auth, calls>>

\* The state of the parts of the program outside CacheManager and ApiClient.
extVars == <<reqs, app, loader, refresh, runner>>

vars == <<cache, options, now, sweepTimer, discarded, last, purged, run,
          config, auth, calls, reqs, done, app, loader, refresh, runner>>

\* ------------------------------------------------------- Map primitives
KeysOf(c) == {c[i].key : i \in 1..Len(c)}

Has(c, k) == k \in KeysOf(c)

IndexOf(c, k) == CHOOSE i \in 1..Len(c) : c[i].key = k

Entry(c, k) == c[IndexOf(c, k)]

\* MapSet with the overwrite lost: a key that is present keeps its old entry.
MapSetKeepOld(c, k, e) ==
    IF Has(c, k) THEN c ELSE Append(c, e)

\* Map.prototype.set keeps the position of a key that is already present
\* and appends a new key.
MapSet(c, k, e) ==
    IF Has(c, k)
    THEN [i \in 1..Len(c) |-> IF c[i].key = k THEN e ELSE c[i]]
    ELSE Append(c, e)

MapDelete(c, k) == SelectSeq(c, LAMBDA e : e.key # k)

\* ------------------------------------------------------- CacheManager
\* The forEach of evictOldest from entry i on; acc.found = FALSE stands for
\* oldestKey = null, oldestTimestamp = Infinity.
RECURSIVE OldestScan(_, _, _)
OldestScan(c, i, acc) ==
    IF i > Len(c) THEN acc
    ELSE IF (~acc.found) \/ c[i].timestamp < acc.timestamp
         THEN OldestScan(c, i + 1,
                  [found |-> TRUE, key |-> c[i].key, timestamp |-> c[i].timestamp])
         ELSE OldestScan(c, i + 1, acc)

\* if (oldestKey): null and the empty string are both falsy.
KeyTruthy(acc) == acc.found /\ acc.key # ""

evictOldest(c) ==
    LET acc == OldestScan(c, 1, [found |-> FALSE, key |-> "", timestamp |-> 0])
    IN  IF KeyTruthy(acc) THEN MapDelete(c, acc.key) ELSE c

set(c, k, v, t, maxSize) ==
    LET c1 == IF Len(c) >= maxSize THEN evictOldest(c) ELSE c
    IN  MapSet(c1, k, [key |-> k, value |-> v, timestamp |-> t])

\* GetExpired with >= for >: an entry of age maxAge counts as expired.
GetExpiredAtBoundary(e, t, maxAge) == t - e.timestamp >= maxAge

GetExpired(e, t, maxAge) == t - e.timestamp > maxAge

\* get as a passive check: an expired entry is hidden but not deleted.
getPassive(c, k, t, maxAge) ==
    IF ~Has(c, k) THEN [ret |-> Null, cache |-> c]
    ELSE IF GetExpired(Entry(c, k), t, maxAge)
         THEN [ret |-> Null, cache |-> c]
         ELSE [ret |-> Entry(c, k).value, cache |-> c]

\* get as in a least-recently-used cache: a hit refreshes the timestamp.
getTouch(c, k, t, maxAge) ==
    IF ~Has(c, k) THEN [ret |-> Null, cache |-> c]
    ELSE IF GetExpired(Entry(c, k), t, maxAge)
         THEN [ret |-> Null, cache |-> MapDelete(c, k)]
         ELSE [ret |-> Entry(c, k).value,
               cache |-> MapSet(c, k, [Entry(c, k) EXCEPT !.timestamp = t])]

\* get returns the value and the cache it leaves behind.
get(c, k, t, maxAge) ==
    IF ~Has(c, k) THEN [ret |-> Null, cache |-> c]
    ELSE IF GetExpired(Entry(c, k), t, maxAge)
         THEN [ret |-> Null, cache |-> MapDelete(c, k)]
         ELSE [ret |-> Entry(c, k).value, cache |-> c]

\* SweepExpired with >= for >: the sweep also deletes entries of age maxAge.
SweepExpiredAtBoundary(e, t, maxAge) == t - e.timestamp >= maxAge

SweepExpired(e, t, maxAge) == t - e.timestamp > maxAge

\* The interval callback of setupCleanupInterval.
sweep(c, t, maxAge) == SelectSeq(c, LAMBDA e : ~SweepExpired(e, t, maxAge))

\* clear that deletes one entry only, the first of the Map.
clearFirst(c) == IF c = << >> THEN c ELSE Tail(c)

clear(c) == << >>

\* ------------------------------------------------------- ApiClient data
\* The factor of the backoff delay, 1000 * attempt, in milliseconds; also the
\* step of the clock of ApiSpec.
BackoffBase == 1000
\* The options of the CacheManager the ApiClient constructs.
ApiMaxAge == 300000
ApiMaxSize == 100

\* Call slots; a slot whose call has settled takes the next call.
Calls == {1}
Methods == {"GET"}
Endpoints == {"/a"}
\* options.headers: the caller passes no Authorization header or one of its own.
CallerAuth == {"none", "Basic caller"}
Tokens == {"abc"}
\* expiresAt of a token: one clock step after the start, or far away.
TokenExpiries == {1000, 300000}
Timeouts == {1000, 2000}
\* The ways an attempt fails: fetch rejects, the status is not ok, the body
\* does not parse, the abort timer fires.
FailureKinds == {"network", "http", "json", "abort"}

\* currentToken = null
NoToken == [token |-> "", expiresAt |-> 0, present |-> FALSE]

NoError == [kind |-> "none", attempt |-> 0, cause |-> "none"]

NoSend == [authorization |-> "none", valid |-> FALSE, token |-> ""]

NoTimer == [active |-> FALSE, due |-> 0]

\* A slot no call has used yet.  attempt is the variable of request; tries,
\* inflight, waits, sent, failedAt, lastError, reads, writes and hit record
\* what the call did: executeRequest invocations, fetches in flight, the
\* delays passed to setTimeout, the Authorization header of the last fetch
\* and the credentials at that time, the time of the failure a backoff
\* follows, the error of the last failure, cache gets and sets, and whether
\* it returned from cache.
IdleCall ==
    [pc |-> "idle", method |-> "GET", endpoint |-> "/a", useCache |-> FALSE,
     callerAuth |-> "none", key |-> "", attempt |-> 0, tries |-> 0,
     inflight |-> 0, timer |-> NoTimer, wakeAt |-> 0, waits |-> << >>,
     sent |-> NoSend, failedAt |-> 0, lastError |-> NoError,
     result |-> Null, error |-> NoError, reads |-> 0, writes |-> 0,
     hit |-> FALSE]

\* ------------------------------------------------------- state machine
\* The record kept of the last cache operation.  after: the operation before
\* it was a set of the same key (for a get) or a clear (for a clear), and then
\* value is the value that set stored; wasPurged: the key of a get was in
\* purged; due: the due time of the interval when a sweep fired.
NoOp == [op |-> "none", key |-> "", value |-> Null, ret |-> Null,
         pre |-> << >>, at |-> 0, after |-> FALSE, wasPurged |-> FALSE,
         due |-> 0]

Init ==
    /\ options \in [maxAge : 1..MaxAgeBound, maxSize : 1..MaxSizeBound]
    /\ cache = << >>
    /\ now = 0
    /\ sweepTimer = [active |-> TRUE, period |-> options.maxAge,
                     due |-> options.maxAge]
    /\ discarded = FALSE
    /\ last = NoOp
    /\ purged = {}
    /\ run = [pure |-> TRUE, keys |-> << >>]
    /\ config = [timeout |-> BackoffBase, retryAttempts |-> 1]
    /\ auth = NoToken
    /\ calls = << >>
    /\ reqs = << >>
    /\ done = << >>
    /\ app = << >>
    /\ loader = << >>
    /\ refresh = << >>
    /\ runner = << >>

Broken == [pure |-> FALSE, keys |-> << >>]

Range(s) == {s[i] : i \in 1..Len(s)}

Set(k, v) ==
    /\ ~discarded
    /\ cache' = set(cache, k, v, now, options.maxSize)
    /\ last' = [NoOp EXCEPT !.op = "set", !.key = k, !.value = v,
                            !.pre = cache, !.at = now]
    /\ purged' = purged \ {k}
    /\ run' = IF run.pure /\ k \notin Range(run.keys)
                          /\ Len(run.keys) <= options.maxSize
              THEN [run EXCEPT !.keys = Append(@, k)]
              ELSE Broken
    /\ UNCHANGED <<options, now, sweepTimer, discarded>>
    /\ UNCHANGED apiVars
    /\ UNCHANGED extVars
    /\ UNCHANGED done

Get(k) ==
    LET r == get(cache, k, now, options.maxAge)
        afterSet == last.op = "set" /\ last.key = k
    IN  /\ ~discarded
        /\ cache' = r.cache
        /\ last' = [NoOp EXCEPT !.op = "get", !.key = k, !.ret = r.ret,
                                !.pre = cache, !.at = now,
                                !.after = afterSet,
                                !.value = IF afterSet THEN last.value ELSE Null,
                                !.wasPurged = k \in purged]
        /\ purged' = IF Has(cache, k) /\ ~Has(r.cache, k)
                     THEN purged \cup {k} ELSE purged
        /\ run' = Broken
        /\ UNCHANGED <<options, now, sweepTimer, discarded>>
        /\ UNCHANGED apiVars
        /\ UNCHANGED extVars
        /\ UNCHANGED done

Clear ==
    /\ ~discarded
    /\ cache' = clear(cache)
    /\ last' = [NoOp EXCEPT !.op = "clear", !.pre = cache, !.at = now,
                            !.after = (last.op = "clear")]
    /\ run' = Broken
    /\ UNCHANGED <<options, now, sweepTimer, discarded, purged>>
    /\ UNCHANGED apiVars
    /\ UNCHANGED extVars
    /\ UNCHANGED done

\* The interval callback runs when the registration is due and the interval
\* is then due again one period later.  Calls made at the same instant may
\* run before or after it.
Sweep ==
    /\ sweepTimer.active
    /\ now = sweepTimer.due
    /\ cache' = sweep(cache, now, options.maxAge)
    /\ sweepTimer' = [sweepTimer EXCEPT !.due = now + sweepTimer.period]
    /\ last' = [NoOp EXCEPT !.op = "sweep", !.pre = cache, !.at = now,
                            !.due = sweepTimer.due]
    /\ run' = IF cache' = cache THEN run ELSE Broken
    /\ UNCHANGED <<options, now, discarded, purged>>
    /\ UNCHANGED apiVars
    /\ UNCHANGED extVars
    /\ UNCHANGED done

\* Date.now() advances; a callback that is due runs before the clock moves on.
Tick ==
    /\ now < MaxTime
    /\ sweepTimer.active => now < sweepTimer.due
    /\ now' = now + 1
    /\ UNCHANGED <<cache, options, sweepTimer, discarded, last, purged, run>>
    /\ UNCHANGED apiVars
    /\ UNCHANGED extVars
    /\ UNCHANGED done

\* The owner (ApiClient, panel) drops the cache; CacheManager has no method
\* that clears the interval, so the registration is left as it is.
Discard ==
    /\ ~discarded
    /\ discarded' = TRUE
    /\ UNCHANGED <<cache, options, now, sweepTimer, last, purged, run>>
    /\ UNCHANGED apiVars
    /\ UNCHANGED extVars
    /\ UNCHANGED done

Next ==
    \/ \E k \in Keys, v \in Values : Set(k, v)
    \/ \E k \in Keys : Get(k)
    \/ Clear
    \/ Sweep
    \/ Tick
    \/ Discard

Spec == Init /\ [][Next]_vars

TypeOK ==
    /\ now \in 0..MaxTime
    /\ discarded \in BOOLEAN
    /\ \A i \in 1..Len(cache) : cache[i].key \in Keys /\ cache[i].value \in Values

\* ------------------------------------------------------- ApiClient
\* JSON.stringify(undefined) inside the template literal of the cache key.
UndefinedBody == "undefined"

\* `${method}:${endpoint}:${JSON.stringify(options.body)}`
cacheKey(method, endpoint, body) == method \o ":" \o endpoint \o ":" \o body

\* The test of the cached value as `cached !== undefined`: get never returns
\* undefined, so every call with useCache returns from the cache.
NotUndefined(v) == TRUE

\* if (cached): null and 0 are falsy.
Truthy(v) == v # Null /\ v # 0

\* isAuthenticated without the expiry test.
isAuthenticatedAnyToken(a, t) == a.present

isAuthenticated(a, t) == a.present /\ a.expiresAt > t

getToken(a) == IF a.present THEN a.token ELSE "null"

\* The Authorization header with the spreads swapped: options.headers wins.
AuthorizationCallerWins(callerAuth, a, t) ==
    IF callerAuth # "none" THEN callerAuth
    ELSE IF isAuthenticated(a, t) THEN "Bearer " \o getToken(a) ELSE "none"

\* The Authorization header of the fetch: options.headers is spread first,
\* the bearer header after it when isAuthenticated().
Authorization(callerAuth, a, t) ==
    IF isAuthenticated(a, t) THEN "Bearer " \o getToken(a) ELSE callerAuth

\* A constant delay in place of the linear one.
BackoffConstant(attempt) == BackoffBase

\* 1000 * attempt
BackoffDelay(attempt) == BackoffBase * attempt

\* The retry that does not await its delay.
WakeAtOnce(t, delay) == t

\* await new Promise(resolve => setTimeout(resolve, delay))
WakeAt(t, delay) == t + delay

\* executeRequest without its finally block: the abort timer stays armed.
TimerKept(timer) == timer

\* finally { clearTimeout(timeout) }
TimerCleared(timer) == NoTimer

\* The test of the catch block off by one: the last failure is followed by
\* one more delay.
LastAttemptOneLater(attempt, retryAttempts) == attempt = retryAttempts + 1

\* The test of the catch block off by one the other way: the failure before
\* the last is thrown to the caller.
LastAttemptOneEarlier(attempt, retryAttempts) == attempt = retryAttempts - 1

\* if (attempt === this.config.retryAttempts) throw error
LastAttempt(attempt, retryAttempts) == attempt = retryAttempts

\* while (attempt < this.config.retryAttempts)
LoopContinues(attempt, retryAttempts) == attempt < retryAttempts

\* request that writes the cache whether or not useCache is set.
StoreAlways(c, call, v, t) ==
    set(c, call.key, v, t, options.maxSize)

\* if (options.useCache) this.cacheManager.set(cacheKey, response)
Store(c, call, v, t) ==
    IF call.useCache THEN set(c, call.key, v, t, options.maxSize) ELSE c

\* executeRequest without its abort timer: fetch is called with no timeout.
StartAttemptNoTimer(call, t) ==
    [call EXCEPT
        !.pc = "fetch",
        !.tries = @ + 1,
        !.inflight = @ + 1,
        !.sent = [authorization |-> Authorization(call.callerAuth, auth, t),
                  valid |-> isAuthenticated(auth, t),
                  token |-> getToken(auth)],
        !.failedAt = 0]

\* executeRequest up to its await: the abort timer is armed and fetch is
\* called with the headers evaluated now.
StartAttempt(call, t) ==
    [call EXCEPT
        !.pc = "fetch",
        !.tries = @ + 1,
        !.inflight = @ + 1,
        !.timer = [active |-> TRUE, due |-> t + config.timeout],
        !.sent = [authorization |-> Authorization(call.callerAuth, auth, t),
                  valid |-> isAuthenticated(auth, t),
                  token |-> getToken(auth)],
        !.failedAt = 0]

\* An attempt fails: the finally of executeRequest, then the catch of request.
Fail(call, kind, t) ==
    LET err == [kind |-> kind, attempt |-> call.tries, cause |-> "none"]
        n == call.attempt + 1
        failed == [call EXCEPT !.attempt = n,
                               !.inflight = @ - 1,
                               !.timer = TimerCleared(@),
                               !.failedAt = t,
                               !.lastError = err]
    IN  IF LastAttempt(n, config.retryAttempts)
        THEN [failed EXCEPT !.pc = "rejected", !.error = err]
        ELSE [failed EXCEPT !.pc = "backoff",
                            !.wakeAt = WakeAt(t, BackoffDelay(n)),
                            !.waits = Append(@, BackoffDelay(n))]

\* An attempt succeeds with the parsed body v.
Succeed(call, v) ==
    [call EXCEPT !.pc = "resolved",
                 !.inflight = @ - 1,
                 !.timer = TimerCleared(@),
                 !.result = v,
                 !.writes = IF call.useCache THEN @ + 1 ELSE @]

ApiInit ==
    /\ options = [maxAge |-> ApiMaxAge, maxSize |-> ApiMaxSize]
    /\ cache = << >>
    /\ now = 0
    /\ sweepTimer = [active |-> TRUE, period |-> ApiMaxAge, due |-> ApiMaxAge]
    /\ discarded = FALSE
    /\ last = NoOp
    /\ purged = {}
    /\ run = [pure |-> TRUE, keys |-> << >>]
    /\ config \in [timeout : Timeouts, retryAttempts : 1..MaxRetry]
    /\ auth = NoToken
    /\ calls = [c \in Calls |-> IdleCall]
    /\ reqs = << >>
    /\ done = << >>
    /\ app = << >>
    /\ loader = << >>
    /\ refresh = << >>
    /\ runner = << >>

cacheVars == <<options, sweepTimer, discarded, last, purged, run>>

Settled(call) == call.pc \in {"idle", "resolved", "rejected"}

\* request(method, endpoint, {headers, useCache}) up to its first await.
Request(c, method, endpoint, useCache, callerAuth) ==
    LET key == cacheKey(method, endpoint, UndefinedBody)
        r == IF useCache THEN get(cache, key, now, options.maxAge)
             ELSE [ret |-> Null, cache |-> cache]
        call == [IdleCall EXCEPT !.method = method, !.endpoint = endpoint,
                                 !.useCache = useCache,
                                 !.callerAuth = callerAuth, !.key = key,
                                 !.reads = IF useCache THEN 1 ELSE 0]
    IN  /\ Settled(calls[c])
        /\ cache' = r.cache
        /\ calls' = [calls EXCEPT ![c] =
              IF useCache /\ Truthy(r.ret)
              THEN [call EXCEPT !.pc = "resolved", !.result = r.ret,
                                !.hit = TRUE]
              ELSE StartAttempt(call, now)]
        /\ UNCHANGED <<now, config, auth>>
        /\ UNCHANGED cacheVars
        /\ UNCHANGED extVars
        /\ done' = SelectSeq(done, LAMBDA d : d # c)

\* fetch rejects with a network error.
FetchRejects(c) ==
    /\ calls[c].pc = "fetch"
    /\ calls' = [calls EXCEPT ![c] = Fail(@, "network", now)]
    /\ UNCHANGED <<cache, now, config, auth>>
    /\ UNCHANGED cacheVars
    /\ UNCHANGED extVars
    /\ UNCHANGED done

\* fetch resolves with a response; one that is not ok is thrown as an error.
FetchResponds(c, ok) ==
    /\ calls[c].pc = "fetch"
    /\ calls' = [calls EXCEPT ![c] =
          IF ok THEN [@ EXCEPT !.pc = "json"] ELSE Fail(@, "http", now)]
    /\ UNCHANGED <<cache, now, config, auth>>
    /\ UNCHANGED cacheVars
    /\ UNCHANGED extVars
    /\ UNCHANGED done

\* response.json() resolves with v; request stores and returns it.
JsonParses(c, v) ==
    /\ calls[c].pc = "json"
    /\ cache' = Store(cache, calls[c], v, now)
    /\ calls' = [calls EXCEPT ![c] = Succeed(@, v)]
    /\ UNCHANGED <<now, config, auth>>
    /\ UNCHANGED cacheVars
    /\ UNCHANGED extVars
    /\ done' = Append(SelectSeq(done, LAMBDA d : d # c), c)

\* response.json() rejects.
JsonFails(c) ==
    /\ calls[c].pc = "json"
    /\ calls' = [calls EXCEPT ![c] = Fail(@, "json", now)]
    /\ UNCHANGED <<cache, now, config, auth>>
    /\ UNCHANGED cacheVars
    /\ UNCHANGED extVars
    /\ UNCHANGED done

\* The timer of executeRequest fires: controller.abort() rejects the fetch or
\* the body read that is in flight.
Abort(c) ==
    /\ calls[c].timer.active
    /\ now = calls[c].timer.due
    /\ calls' = [calls EXCEPT ![c] =
          IF calls[c].pc \in {"fetch", "json"}
          THEN Fail(@, "abort", now)
          ELSE [@ EXCEPT !.timer = NoTimer]]
    /\ UNCHANGED <<cache, now, config, auth>>
    /\ UNCHANGED cacheVars
    /\ UNCHANGED extVars
    /\ UNCHANGED done

\* The backoff delay has elapsed: the loop of request runs executeRequest
\* again, or ends with the error thrown after the loop.
Wake(c) ==
    /\ calls[c].pc = "backoff"
    /\ now = calls[c].wakeAt
    /\ calls' = [calls EXCEPT ![c] =
          IF LoopContinues(calls[c].attempt, config.retryAttempts)
          THEN StartAttempt(@, now)
          ELSE [@ EXCEPT !.pc = "rejected",
                         !.error = [kind |-> "Request failed after all retry attempts",
                                    attempt |-> 0, cause |-> "none"]]]
    /\ UNCHANGED <<cache, now, config, auth>>
    /\ UNCHANGED cacheVars
    /\ UNCHANGED extVars
    /\ UNCHANGED done

\* AuthenticationManager.setToken after a login or a refresh.
SetToken(token, expiresAt) ==
    /\ auth' = [token |-> token, expiresAt |-> expiresAt, present |-> TRUE]
    /\ UNCHANGED <<cache, now, config, calls>>
    /\ UNCHANGED cacheVars
    /\ UNCHANGED extVars
    /\ UNCHANGED done

Logout ==
    /\ auth' = NoToken
    /\ UNCHANGED <<cache, now, config, calls>>
    /\ UNCHANGED cacheVars
    /\ UNCHANGED extVars
    /\ UNCHANGED done

\* Date.now() advances by one step; timers that are due run first.
ApiTick ==
    /\ now < MaxApiTicks * BackoffBase
    /\ \A c \in Calls :
          /\ calls[c].timer.active => now < calls[c].timer.due
          /\ calls[c].pc = "backoff" => now < calls[c].wakeAt
    /\ now' = now + BackoffBase
    /\ UNCHANGED <<cache, config, auth, calls>>
    /\ UNCHANGED cacheVars
    /\ UNCHANGED extVars
    /\ UNCHANGED done

ApiNext ==
    \/ \E c \in Calls, m \in Methods, e \in Endpoints, u \in BOOLEAN,
          h \in CallerAuth : Request(c, m, e, u, h)
    \/ \E c \in Calls : FetchRejects(c)
    \/ \E c \in Calls, ok \in BOOLEAN : FetchResponds(c, ok)
    \/ \E c \in Calls, v \in Values : JsonParses(c, v)
    \/ \E c \in Calls : JsonFails(c)
    \/ \E c \in Calls : Abort(c)
    \/ \E c \in Calls : Wake(c)
    \/ \E t \in Tokens, e \in TokenExpiries : SetToken(t, e)
    \/ Logout
    \/ ApiTick

ApiSpec == ApiInit /\ [][ApiNext]_vars

\* ------------------------------------------------------- ApiClient, timers fair
\* The longest a request call can take: every attempt runs into its timeout
\* and every backoff delay is waited out.
LongestTimeout == CHOOSE t \in Timeouts : \A u \in Timeouts : u <= t

LongestCall ==
    MaxRetry * LongestTimeout + BackoffBase * ((MaxRetry * (MaxRetry - 1)) \div 2)

\* Calls start while the clock is below MaxApiTicks steps.
TermRequest(c, useCache) ==
    /\ now < MaxApiTicks * BackoffBase
    /\ Request(c, "GET", "/a", useCache, "none")

\* Date.now() advances for as long as a call that has started can last.
TermTick ==
    /\ now < MaxApiTicks * BackoffBase + LongestCall
    /\ \A c \in Calls :
          /\ calls[c].timer.active => now < calls[c].timer.due
          /\ calls[c].pc = "backoff" => now < calls[c].wakeAt
    /\ now' = now + BackoffBase
    /\ UNCHANGED <<cache, config, auth, calls>>
    /\ UNCHANGED cacheVars
    /\ UNCHANGED extVars
    /\ UNCHANGED done

TermNext ==
    \/ \E c \in Calls, u \in BOOLEAN : TermRequest(c, u)
    \/ \E c \in Calls : FetchRejects(c)
    \/ \E c \in Calls, ok \in BOOLEAN : FetchResponds(c, ok)
    \/ \E c \in Calls, v \in Values : JsonParses(c, v)
    \/ \E c \in Calls : JsonFails(c)
    \/ \E c \in Calls : Abort(c)
    \/ \E c \in Calls : Wake(c)
    \/ TermTick

\* Timers fire: the clock advances and a timer that is due runs its callback.
\* Nothing is assumed of fetch itself: an attempt that does not complete is
\* ended by its abort timer.
TermSpec ==
    /\ ApiInit
    /\ [][TermNext]_vars
    /\ WF_vars(TermTick)
    /\ WF_vars(\E c \in Calls : Abort(c))
    /\ WF_vars(\E c \in Calls : Wake(c))

\* ------------------------------------------------------- ApiClient, two calls
RaceCalls == {1, 2}

RaceInit ==
    /\ options = [maxAge |-> ApiMaxAge, maxSize |-> ApiMaxSize]
    /\ cache = << >>
    /\ now = 0
    /\ sweepTimer = [active |-> TRUE, period |-> ApiMaxAge, due |-> ApiMaxAge]
    /\ discarded = FALSE
    /\ last = NoOp
    /\ purged = {}
    /\ run = [pure |-> TRUE, keys |-> << >>]
    /\ config = [timeout |-> BackoffBase, retryAttempts |-> 2]
    /\ auth = NoToken
    /\ calls = [c \in RaceCalls |-> IdleCall]
    /\ reqs = << >>
    /\ done = << >>
    /\ app = << >>
    /\ loader = << >>
    /\ refresh = << >>
    /\ runner = << >>

\* Each slot makes one call: request('GET', '/a', {useCache: true}).
RaceRequest(c) ==
    /\ calls[c].pc = "idle"
    /\ Request(c, "GET", "/a", TRUE, "none")

RaceTick ==
    /\ now < MaxApiTicks * BackoffBase
    /\ \A c \in RaceCalls :
          /\ calls[c].timer.active => now < calls[c].timer.due
          /\ calls[c].pc = "backoff" => now < calls[c].wakeAt
    /\ now' = now + BackoffBase
    /\ UNCHANGED <<cache, config, auth, calls>>
    /\ UNCHANGED cacheVars
    /\ UNCHANGED extVars
    /\ UNCHANGED done

RaceNext ==
    \/ \E c \in RaceCalls : RaceRequest(c)
    \/ \E c \in RaceCalls : FetchRejects(c)
    \/ \E c \in RaceCalls, ok \in BOOLEAN : FetchResponds(c, ok)
    \/ \E c \in RaceCalls, v \in Values : JsonParses(c, v)
    \/ \E c \in RaceCalls : JsonFails(c)
    \/ \E c \in RaceCalls : Abort(c)
    \/ \E c \in RaceCalls : Wake(c)
    \/ RaceTick

RaceSpec == RaceInit /\ [][RaceNext]_vars

\* ------------------------------------------------------- cache key
\* The value undefined of a field of a body.
Undef == -2

KeyMethods == {"GET", "GET:/a"}
KeyEndpoints == {"/b", "/a:/b"}
FieldNames == {"a", "b"}
FieldValues == {1, Undef}

\* options.body is undefined.
NoBody == [present |-> FALSE, fields |-> << >>]

\* The own properties of an object in insertion order, names distinct.
FieldLists ==
    {f \in UNION {[1..n -> [name : FieldNames, value : FieldValues]] :
                     n \in 0..MaxFields} :
        \A i, j \in 1..Len(f) : f[i].name = f[j].name => i = j}

Bodies == {NoBody} \cup {[present |-> TRUE, fields |-> f] : f \in FieldLists}

NumberToString(n) ==
    CASE n = 0 -> "0" [] n = 1 -> "1" [] n = 2 -> "2" [] OTHER -> "NaN"

\* One member of the JSON text of an object: "name":value
Member(x) == "\"" \o x.name \o "\":" \o NumberToString(x.value)

RECURSIVE Join(_, _)
Join(f, i) ==
    IF i > Len(f) THEN ""
    ELSE Member(f[i]) \o (IF i < Len(f) THEN "," ELSE "") \o Join(f, i + 1)

\* JSON.stringify(body): undefined for no body; the members of an object in
\* insertion order, those whose value is undefined left out.
stringify(b) ==
    IF ~b.present THEN UndefinedBody
    ELSE "{" \o Join(SelectSeq(b.fields, LAMBDA x : x.value # Undef), 1) \o "}"

\* A request call that has not started.
NewRequest(m, e, b) ==
    [method |-> m, endpoint |-> e, body |-> b, key |-> "", pc |-> "new",
     from |-> 0]

KeyInit ==
    /\ options = [maxAge |-> ApiMaxAge, maxSize |-> ApiMaxSize]
    /\ cache = << >>
    /\ now = 0
    /\ sweepTimer = [active |-> TRUE, period |-> ApiMaxAge, due |-> ApiMaxAge]
    /\ discarded = FALSE
    /\ last = NoOp
    /\ purged = {}
    /\ run = [pure |-> TRUE, keys |-> << >>]
    /\ config = [timeout |-> BackoffBase, retryAttempts |-> 1]
    /\ auth = NoToken
    /\ calls = << >>
    /\ reqs \in [1..2 -> {NewRequest(m, e, b) :
                             m \in KeyMethods, e \in KeyEndpoints, b \in Bodies}]
    /\ done = << >>
    /\ app = << >>
    /\ loader = << >>
    /\ refresh = << >>
    /\ runner = << >>

keyFrame == <<options, now, sweepTimer, discarded, last, purged, run,
              config, auth, calls, done, app, loader, refresh, runner>>

\* request(method, endpoint, {body, useCache: true}) up to its first await:
\* the key is computed and the cache is read.  from is the request whose
\* response the call returns.
KeyRequest(i) ==
    LET key == cacheKey(reqs[i].method, reqs[i].endpoint,
                        stringify(reqs[i].body))
        r == get(cache, key, now, options.maxAge)
    IN  /\ reqs[i].pc = "new"
        /\ cache' = r.cache
        /\ reqs' = [reqs EXCEPT ![i] =
              IF Truthy(r.ret)
              THEN [@ EXCEPT !.key = key, !.pc = "resolved", !.from = r.ret]
              ELSE [@ EXCEPT !.key = key, !.pc = "fetch"]]
        /\ UNCHANGED keyFrame

\* The attempt of request i succeeds; its response, named i, is stored under
\* the key and returned.
KeyResponse(i) ==
    /\ reqs[i].pc = "fetch"
    /\ cache' = set(cache, reqs[i].key, i, now, options.maxSize)
    /\ reqs' = [reqs EXCEPT ![i] = [@ EXCEPT !.pc = "resolved", !.from = i]]
    /\ UNCHANGED keyFrame

KeyNext ==
    \/ \E i \in 1..2 : KeyRequest(i)
    \/ \E i \in 1..2 : KeyResponse(i)

KeySpec == KeyInit /\ [][KeyNext]_vars

\* ------------------------------------------------------- App and Router
\* The keys of App.explorations in the order initializeExplorations sets them.
PanelKeys == <<"hooks", "browser-apis", "security", "testing", "build",
               "performance">>

Panels == Range(PanelKeys)

\* The constructors that call this.initialize(): all but PerformanceOptimization.
InitializesInConstructor(p) == p # "performance"

\* `/${key}`
RouteOf(key) == "/" \o key

\* Router.routes after setupRouter.
Routes == {RouteOf(key) : key \in Panels}

KeyOfRoute(path) == CHOOSE key \in Panels : RouteOf(key) = path

\* location.pathname when the page loads.
StartPaths == {"/", "/hooks"}

\* The panel whose constructor rendered into #content last.
LastConstructed ==
    LET idx == {i \in 1..Len(PanelKeys) : InitializesInConstructor(PanelKeys[i])}
    IN  PanelKeys[CHOOSE i \in idx : \A j \in idx : j <= i]

NoNav == [path |-> "", registered |-> FALSE, shown |-> "none",
          cleaned |-> "none", initialized |-> "none"]

\* showExploration(key): cleanup of currentExploration if there is one, then
\* the panel of key becomes current and is initialized.
showExploration(a, key) ==
    LET cleaned == IF a.current # "none"
                   THEN [a EXCEPT !.live = [@ EXCEPT ![a.current] = 0],
                                  !.nav = [@ EXCEPT !.cleaned = a.current]]
                   ELSE a
    IN  [cleaned EXCEPT !.current = key,
                        !.live = [@ EXCEPT ![key] = @ + 1],
                        !.displayed = key,
                        !.nav = [@ EXCEPT !.initialized = key]]

\* Router.handleRoute for location.pathname = path.
handleRoute(a, path) ==
    LET noted == [a EXCEPT !.currentPath = path,
                           !.nav = [NoNav EXCEPT !.path = path,
                                                 !.registered = path \in Routes,
                                                 !.shown = a.displayed]]
    IN  IF path \in Routes THEN showExploration(noted, KeyOfRoute(path))
        ELSE noted

\* The state when the App constructor returns: the panels are constructed,
\* the Router has handled the start path with no route registered yet, the
\* routes are registered and the navigation links are built.
PanelInit ==
    /\ options = [maxAge |-> ApiMaxAge, maxSize |-> ApiMaxSize]
    /\ cache = << >>
    /\ now = 0
    /\ sweepTimer = [active |-> TRUE, period |-> ApiMaxAge, due |-> ApiMaxAge]
    /\ discarded = FALSE
    /\ last = NoOp
    /\ purged = {}
    /\ run = [pure |-> TRUE, keys |-> << >>]
    /\ config = [timeout |-> BackoffBase, retryAttempts |-> 1]
    /\ auth = NoToken
    /\ calls = << >>
    /\ reqs = << >>
    /\ done = << >>
    /\ \E start \in StartPaths :
          app = [current |-> "none",
                 currentPath |-> start,
                 history |-> <<start>>,
                 pos |-> 1,
                 live |-> [p \in Panels |->
                              IF InitializesInConstructor(p) THEN 1 ELSE 0],
                 displayed |-> LastConstructed,
                 nav |-> NoNav]
    /\ loader = << >>
    /\ refresh = << >>
    /\ runner = << >>

panelFrame == <<cache, options, now, sweepTimer, discarded, last, purged, run,
                config, auth, calls, reqs, done, loader, refresh, runner>>

\* A click on the link of key: router.navigate(`/${key}`) pushes the path
\* onto the session history and handles the route.
Navigate(key) ==
    LET path == RouteOf(key)
        pushed == [app EXCEPT
                      !.history = Append(SubSeq(app.history, 1, app.pos), path),
                      !.pos = app.pos + 1]
    IN  /\ app.pos < MaxHistory
        /\ app' = handleRoute(pushed, path)
        /\ UNCHANGED panelFrame

\* The back or forward button: popstate, then handleRoute for the entry the
\* history moved to.
PopState(to) ==
    /\ to \in 1..Len(app.history)
    /\ to # app.pos
    /\ app' = handleRoute([app EXCEPT !.pos = to], app.history[to])
    /\ UNCHANGED panelFrame

PanelNext ==
    \/ \E key \in Panels : Navigate(key)
    \/ \E to \in 1..MaxHistory : PopState(to)

PanelSpec == PanelInit /\ [][PanelNext]_vars

\* ------------------------------------------------------- ModuleLoader
ModulePaths == {"./a.js", "./b.js"}

\* No import: the value of a path that loadedModules or loading does not hold.
NoImport == 0

\* loadModule(path) up to its return.  An import is named by the number of
\* the import() call; the promise loadModule returns is named by the import
\* whose result it carries.  A call that finds the module loaded returns it
\* at once and waits for nothing.
loadModule(l, path) ==
    IF l.loadedModules[path] # NoImport THEN l
    ELSE IF l.loading[path] # NoImport
         THEN [l EXCEPT !.callers = @ \cup {[path |-> path,
                                             promise |-> l.loading[path]]}]
         ELSE [l EXCEPT
                  !.imports = @ \cup {[id |-> l.started + 1, path |-> path,
                                       stale |-> FALSE]},
                  !.started = @ + 1,
                  !.loading = [@ EXCEPT ![path] = l.started + 1],
                  !.callers = @ \cup {[path |-> path,
                                       promise |-> l.started + 1]}]

\* The .then callback of the import i.
importResolved(l, i) ==
    [l EXCEPT !.loadedModules = [@ EXCEPT ![i.path] = i.id],
              !.loading = [@ EXCEPT ![i.path] = NoImport],
              !.imports = @ \ {i},
              !.callers = {c \in @ : c.promise # i.id},
              !.cleared = [@ EXCEPT ![i.path] = @ /\ i.stale]]

\* The .catch callback of the import i.
importRejected(l, i) ==
    [l EXCEPT !.loading = [@ EXCEPT ![i.path] = NoImport],
              !.imports = @ \ {i},
              !.callers = {c \in @ : c.promise # i.id}]

\* clearCache(): both maps are emptied; the imports in flight go on.  cleared
\* holds for a path from here until an import started later resolves.
clearCache(l) ==
    [l EXCEPT !.loadedModules = [q \in ModulePaths |-> NoImport],
              !.loading = [q \in ModulePaths |-> NoImport],
              !.imports = {[i EXCEPT !.stale = TRUE] : i \in @},
              !.cleared = [q \in ModulePaths |-> TRUE]]

isModuleLoaded(l, path) == l.loadedModules[path] # NoImport

LoaderInit ==
    /\ options = [maxAge |-> ApiMaxAge, maxSize |-> ApiMaxSize]
    /\ cache = << >>
    /\ now = 0
    /\ sweepTimer = [active |-> TRUE, period |-> ApiMaxAge, due |-> ApiMaxAge]
    /\ discarded = FALSE
    /\ last = NoOp
    /\ purged = {}
    /\ run = [pure |-> TRUE, keys |-> << >>]
    /\ config = [timeout |-> BackoffBase, retryAttempts |-> 1]
    /\ auth = NoToken
    /\ calls = << >>
    /\ reqs = << >>
    /\ done = << >>
    /\ app = << >>
    /\ loader = [loadedModules |-> [q \in ModulePaths |-> NoImport],
                 loading |-> [q \in ModulePaths |-> NoImport],
                 imports |-> {},
                 started |-> 0,
                 callers |-> {},
                 cleared |-> [q \in ModulePaths |-> FALSE]]
    /\ refresh = << >>
    /\ runner = << >>

loaderFrame == <<cache, options, now, sweepTimer, discarded, last, purged, run,
                 config, auth, calls, reqs, done, app, refresh, runner>>

LoadModule(path) ==
    /\ (loader.loadedModules[path] = NoImport /\ loader.loading[path] = NoImport)
       => loader.started < MaxImports
    /\ loader' = loadModule(loader, path)
    /\ loader' # loader
    /\ UNCHANGED loaderFrame

ImportResolves(i) ==
    /\ i \in loader.imports
    /\ loader' = importResolved(loader, i)
    /\ UNCHANGED loaderFrame

ImportRejects(i) ==
    /\ i \in loader.imports
    /\ loader' = importRejected(loader, i)
    /\ UNCHANGED loaderFrame

ClearCache ==
    /\ loader' = clearCache(loader)
    /\ loader' # loader
    /\ UNCHANGED loaderFrame

LoaderNext ==
    \/ \E path \in ModulePaths : LoadModule(path)
    \/ \E i \in loader.imports : ImportResolves(i)
    \/ \E i \in loader.imports : ImportRejects(i)
    \/ ClearCache

LoaderSpec == LoaderInit /\ [][LoaderNext]_vars

\* ------------------------------------------------------- AuthenticationManager
\* The period of the refresh interval and the window before expiry in which
\* the interval callback refreshes, in milliseconds.
RefreshPeriod == 60000
RefreshWindow == 300000

\* expiresAt of the tokens the server issues: inside the window, outside it.
AuthExpiries == {120000, 600000}

\* refreshInterval = null
NoInterval == 0

\* setupRefreshInterval(): the interval held is cleared and a new one is set.
\* timers are the intervals registered with the window and not cleared.
setupRefreshInterval(r, t) ==
    [r EXCEPT !.timers = {x \in @ : x.id # r.refreshInterval}
                            \cup {[id |-> r.created + 1, due |-> t + RefreshPeriod]},
              !.refreshInterval = r.created + 1,
              !.created = @ + 1]

\* setToken(token, expiresAt)
setToken(token, expiresAt) ==
    [token |-> token, expiresAt |-> expiresAt, present |-> TRUE]

\* logout() on the interval state: clearInterval when one is held.
logoutInterval(r) ==
    IF r.refreshInterval # NoInterval
    THEN [r EXCEPT !.timers = {x \in @ : x.id # r.refreshInterval},
                   !.refreshInterval = NoInterval]
    ELSE r

\* The state when getInstance() has constructed the manager:
\* loadTokenFromStorage found no token, or one and set the interval up.
AuthInit ==
    /\ options = [maxAge |-> ApiMaxAge, maxSize |-> ApiMaxSize]
    /\ cache = << >>
    /\ now = 0
    /\ sweepTimer = [active |-> TRUE, period |-> ApiMaxAge, due |-> ApiMaxAge]
    /\ discarded = FALSE
    /\ last = NoOp
    /\ purged = {}
    /\ run = [pure |-> TRUE, keys |-> << >>]
    /\ config = [timeout |-> BackoffBase, retryAttempts |-> 1]
    /\ calls = << >>
    /\ reqs = << >>
    /\ done = << >>
    /\ app = << >>
    /\ loader = << >>
    /\ runner = << >>
    /\ LET none == [refreshInterval |-> NoInterval, timers |-> {}, created |-> 0,
                    logins |-> 0, refreshes |-> 0, loggedOut |-> FALSE]
       IN  \/ auth = NoToken /\ refresh = none
           \/ \E e \in AuthExpiries :
                 /\ auth = setToken("abc", e)
                 /\ refresh = setupRefreshInterval(none, 0)

authFrame == <<cache, options, sweepTimer, discarded, last, purged, run,
               config, calls, reqs, done, app, loader, runner>>

\* login(credentials) up to its first await.
Login ==
    /\ refresh.logins < MaxPending
    /\ refresh' = [refresh EXCEPT !.logins = @ + 1, !.loggedOut = FALSE]
    /\ UNCHANGED <<auth, now>>
    /\ UNCHANGED authFrame

\* The login response is ok and its body parsed: setToken.
LoginSucceeds(token, expiresAt) ==
    /\ refresh.logins > 0
    /\ refresh.created < MaxIntervals
    /\ auth' = setToken(token, expiresAt)
    /\ refresh' = [setupRefreshInterval(refresh, now) EXCEPT
                      !.logins = @ - 1, !.loggedOut = FALSE]
    /\ UNCHANGED now
    /\ UNCHANGED authFrame

\* fetch rejects, the response is not ok or its body does not parse: login
\* throws and changes nothing.
LoginFails ==
    /\ refresh.logins > 0
    /\ refresh' = [refresh EXCEPT !.logins = @ - 1]
    /\ UNCHANGED <<auth, now>>
    /\ UNCHANGED authFrame

\* logout(); loggedOut holds from its return until the next login.
AuthLogout ==
    /\ auth' = NoToken
    /\ refresh' = [logoutInterval(refresh) EXCEPT !.loggedOut = TRUE]
    /\ UNCHANGED now
    /\ UNCHANGED authFrame

\* The interval callback of timer x: refreshToken() when the token expires
\* within the window; refreshToken runs up to its fetch.
IntervalFires(x) ==
    LET starts == auth.present /\ auth.expiresAt - now < RefreshWindow
    IN  /\ x \in refresh.timers
        /\ now = x.due
        /\ starts => refresh.refreshes < MaxPending
        /\ refresh' = [refresh EXCEPT
              !.timers = (@ \ {x}) \cup {[x EXCEPT !.due = now + RefreshPeriod]},
              !.refreshes = IF starts THEN @ + 1 ELSE @]
        /\ UNCHANGED <<auth, now>>
        /\ UNCHANGED authFrame

\* The refresh response is ok and its body parsed: setToken.
RefreshSucceeds(token, expiresAt) ==
    /\ refresh.refreshes > 0
    /\ refresh.created < MaxIntervals
    /\ auth' = setToken(token, expiresAt)
    /\ refresh' = [setupRefreshInterval(refresh, now) EXCEPT !.refreshes = @ - 1]
    /\ UNCHANGED now
    /\ UNCHANGED authFrame

\* The refresh response is not ok, or fetch or the body read throws: logout().
\* This logout is the manager's own, not a call of the user.
RefreshFails ==
    /\ refresh.refreshes > 0
    /\ auth' = NoToken
    /\ refresh' = [logoutInterval(refresh) EXCEPT !.refreshes = @ - 1]
    /\ UNCHANGED now
    /\ UNCHANGED authFrame

\* Date.now() advances by one period; an interval that is due fires first.
AuthTick ==
    /\ now < MaxAuthTicks * RefreshPeriod
    /\ \A x \in refresh.timers : now < x.due
    /\ now' = now + RefreshPeriod
    /\ UNCHANGED <<auth, refresh>>
    /\ UNCHANGED authFrame

AuthNext ==
    \/ Login
    \/ \E e \in AuthExpiries : LoginSucceeds("abc", e)
    \/ LoginFails
    \/ AuthLogout
    \/ \E x \in refresh.timers : IntervalFires(x)
    \/ \E e \in AuthExpiries : RefreshSucceeds("abc", e)
    \/ RefreshFails
    \/ AuthTick

AuthSpec == AuthInit /\ [][AuthNext]_vars

\* ------------------------------------------------------- TestingExploration
\* The tests setupExampleTests registers, suite by suite.  timer: the test
\* awaits a setTimeout, so that other tasks run before it settles; the other
\* tests settle within the task that started them.
Tests ==
    << [suite |-> "DOM Testing", name |-> "Should create and append element",
        timer |-> FALSE],
       [suite |-> "DOM Testing", name |-> "Should handle event listeners",
        timer |-> FALSE],
       [suite |-> "Async Testing", name |-> "Should handle promises",
        timer |-> FALSE],
       [suite |-> "Async Testing", name |-> "Should handle timeouts",
        timer |-> TRUE],
       [suite |-> "Integration Testing",
        name |-> "Should integrate with localStorage", timer |-> FALSE] >>

\* runTest(suite, test): the result of test i, failed when its function throws
\* or rejects.
runTest(i, failing) ==
    [suiteName |-> Tests[i].suite, testName |-> Tests[i].name,
     passed |-> i \notin failing]

\* The loops of runAllTests from test i on, within one task: each result is
\* pushed until a test awaits a timer or the tests are through.
RECURSIVE runFrom(_, _, _)
runFrom(results, i, failing) ==
    IF i > Len(Tests) THEN [results |-> results, pc |-> "done", at |-> i]
    ELSE IF Tests[i].timer
         THEN [results |-> results, pc |-> "awaiting", at |-> i]
         ELSE runFrom(Append(results, runTest(i, failing)), i + 1, failing)

\* The tests whose functions throw are fixed for the session.
RunnerInit ==
    /\ options = [maxAge |-> ApiMaxAge, maxSize |-> ApiMaxSize]
    /\ cache = << >>
    /\ now = 0
    /\ sweepTimer = [active |-> TRUE, period |-> ApiMaxAge, due |-> ApiMaxAge]
    /\ discarded = FALSE
    /\ last = NoOp
    /\ purged = {}
    /\ run = [pure |-> TRUE, keys |-> << >>]
    /\ config = [timeout |-> BackoffBase, retryAttempts |-> 1]
    /\ auth = NoToken
    /\ calls = << >>
    /\ reqs = << >>
    /\ done = << >>
    /\ app = << >>
    /\ loader = << >>
    /\ refresh = << >>
    /\ \E failing \in SUBSET (1..Len(Tests)) :
          runner = [results |-> << >>, failing |-> failing, started |-> 0,
                    runs |-> << >>, waiting |-> << >>, completed |-> FALSE]

runnerFrame == <<cache, options, now, sweepTimer, discarded, last, purged, run,
                 config, auth, calls, reqs, done, app, loader, refresh>>

\* A click on Run All Tests: runAllTests() empties results and runs up to
\* the first test that awaits a timer.  completed: this step ended a run.
Click ==
    LET r == runFrom(<< >>, 1, runner.failing)
        id == runner.started + 1
    IN  /\ runner.started < MaxRuns
        /\ runner' = [runner EXCEPT
              !.results = r.results,
              !.started = id,
              !.runs = Append(@, [pc |-> r.pc, at |-> r.at]),
              !.waiting = IF r.pc = "awaiting" THEN Append(@, id) ELSE @,
              !.completed = r.pc = "done"]
        /\ UNCHANGED runnerFrame

\* The timer of the test the oldest waiting run awaits fires: that run pushes
\* the result of the test and goes on to the next timer or to its end.
TimerFires ==
    /\ runner.waiting # << >>
    /\ LET id == Head(runner.waiting)
           i == runner.runs[id].at
           r == runFrom(Append(runner.results, runTest(i, runner.failing)),
                        i + 1, runner.failing)
       IN  runner' = [runner EXCEPT
              !.results = r.results,
              !.runs = [@ EXCEPT ![id] = [pc |-> r.pc, at |-> r.at]],
              !.waiting = IF r.pc = "awaiting" THEN Append(Tail(@), id)
                          ELSE Tail(@),
              !.completed = r.pc = "done"]
    /\ UNCHANGED runnerFrame

RunnerNext ==
    \/ Click
    \/ TimerFires

RunnerSpec == RunnerInit /\ [][RunnerNext]_vars

\* ------------------------------------------------------- helpers of the claims
Age(e, t) == t - e.timestamp

MinTimestamp(c, i) == \A j \in 1..Len(c) : c[i].timestamp <= c[j].timestamp

\* ------------------------------------------------------- claims

\* C1: immediately after every set call the number of stored entries is at
\* most maxSize, for every string key.
CapacityAfterSet ==
    last.op = "set" => Len(cache) <= options.maxSize

\* C2: a set of a key that is not stored, on a cache holding maxSize entries,
\* removes exactly one entry, one with the minimal timestamp, and keeps every
\* other entry that was stored.
EvictsExactlyOneOldest ==
    (last.op = "set" /\ ~Has(last.pre, last.key)
                     /\ Len(last.pre) = options.maxSize)
    => \E i \in 1..Len(last.pre) :
          /\ MinTimestamp(last.pre, i)
          /\ ~Has(cache, last.pre[i].key)
          /\ \A j \in 1..Len(last.pre) :
                j # i => /\ Has(cache, last.pre[j].key)
                         /\ Entry(cache, last.pre[j].key) = last.pre[j]
          /\ Len(cache) = Len(last.pre)

\* C3: a set of a key that is already stored leaves the set of stored keys
\* as it was, also when the cache holds maxSize entries.
OverwriteKeepsKeys ==
    (last.op = "set" /\ Has(last.pre, last.key))
    => KeysOf(cache) = KeysOf(last.pre)

\* C4: after maxSize + 1 sets of distinct keys on a new cache, with no get and
\* no expiry in between, the cache holds exactly maxSize entries and the
\* missing key is the one set first.
FirstInFirstOut ==
    (run.pure /\ Len(run.keys) = options.maxSize + 1)
    => /\ Len(cache) = options.maxSize
       /\ KeysOf(cache) = Range(run.keys) \ {run.keys[1]}

\* C5: a get(k) issued right after set(k, v), before the entry expires,
\* returns v.
RoundTrip ==
    (last.op = "get" /\ last.after)
    => /\ Has(last.pre, last.key)
       /\ Age(Entry(last.pre, last.key), last.at) <= options.maxAge
          => last.ret = last.value

RoundTripWitness ==
    /\ last.op = "get" /\ last.after
    /\ Has(last.pre, last.key)
    /\ Age(Entry(last.pre, last.key), last.at) = options.maxAge
    /\ last.ret = 1

\* C6: get never returns the value of an entry older than maxAge, whether or
\* not the sweep has removed it yet, and returns the stored value of an entry
\* whose age is at most maxAge, the age maxAge included.
ExpiryVisibility ==
    (last.op = "get" /\ Has(last.pre, last.key))
    => LET e == Entry(last.pre, last.key)
       IN  /\ Age(e, last.at) > options.maxAge => last.ret = Null
           /\ Age(e, last.at) <= options.maxAge => last.ret = e.value

ExpiryVisibilityWitness ==
    /\ last.op = "get" /\ ~last.after
    /\ Has(last.pre, last.key)
    /\ Age(Entry(last.pre, last.key), last.at) = options.maxAge
    /\ last.ret = Entry(last.pre, last.key).value
    /\ last.ret = 0

\* C7: a get of a stored but expired entry deletes that entry (one entry
\* fewer) and returns absent, and every later get of that key with no set of
\* it in between returns absent too, sweep or no sweep.
DestructiveRead ==
    /\ (last.op = "get" /\ Has(last.pre, last.key)
          /\ Age(Entry(last.pre, last.key), last.at) > options.maxAge)
       => /\ last.ret = Null
          /\ Len(cache) = Len(last.pre) - 1
          /\ ~Has(cache, last.key)
    /\ (last.op = "get" /\ last.wasPurged)
       => last.ret = Null /\ ~Has(last.pre, last.key)
    /\ \A k \in purged : ~Has(cache, k)

DestructiveReadWitness ==
    /\ last.op = "get" /\ last.wasPurged
    /\ last.key \in purged
    /\ last.ret = Null
    /\ cache # << >>

\* C8: clear empties the cache whatever it held, so that every get is absent
\* afterwards, and a second clear in a row leaves it empty as well.
ClearEmpties ==
    last.op = "clear"
    => /\ Len(cache) = 0
       /\ \A k \in Keys : get(cache, k, now, options.maxAge).ret = Null
       /\ last.after => Len(last.pre) = 0

ClearEmptiesWitness ==
    /\ last.op = "clear" /\ last.after
    /\ Len(cache) = 0

\* C9: the sweep is registered with period maxAge and fires at the multiples
\* of maxAge after construction, and a firing deletes exactly the entries
\* older than maxAge, leaving the others with their key, value and timestamp.
SweepEffect ==
    /\ sweepTimer.period = options.maxAge
    /\ last.op = "sweep"
       => /\ last.at = last.due
          /\ last.at >= options.maxAge /\ last.at % options.maxAge = 0
          /\ sweepTimer.due = last.at + options.maxAge
          /\ \A i \in 1..Len(last.pre) :
                LET e == last.pre[i]
                IN  IF Age(e, last.at) > options.maxAge
                    THEN ~Has(cache, e.key)
                    ELSE Has(cache, e.key) /\ Entry(cache, e.key) = e
          /\ KeysOf(cache) \subseteq KeysOf(last.pre)

SweepEffectWitness ==
    /\ last.op = "sweep"
    /\ Len(cache) < Len(last.pre)
    /\ \E i \in 1..Len(cache) : Age(cache[i], last.at) = options.maxAge

\* C10: once the cache has been discarded no sweep remains scheduled.
SweepCancelledOnDiscard ==
    discarded => ~sweepTimer.active

\* ------------------------------------------------------- claims on ApiClient
\* The step issues a fetch for call c.
Issues(c) == calls[c].pc # "fetch" /\ calls'[c].pc = "fetch"

\* The step starts a new request call in slot c.
Starts(c) == Settled(calls[c]) /\ calls'[c] # calls[c]

\* The cache holds an entry under k that has not expired.
Fresh(k) == Has(cache, k) /\ now - Entry(cache, k).timestamp <= options.maxAge

CredentialValid == auth.present /\ auth.expiresAt > now

\* C11: a request with useCache whose key has a non-expired entry returns the
\* value of that entry, whatever it is, with no transport invocation and no
\* backoff wait.
CacheHitShortCircuit ==
    [][\A c \in Calls :
          (Starts(c) /\ calls'[c].useCache /\ Fresh(calls'[c].key))
          => /\ calls'[c].pc = "resolved"
             /\ calls'[c].result = Entry(cache, calls'[c].key).value
             /\ calls'[c].tries = 0
             /\ calls'[c].waits = << >>]_vars

\* C12: a request that resolves after k failed attempts made k + 1 transport
\* attempts and k backoff waits, the i-th of 1000 * i ms, with k < retryAttempts.
RetryLinearBackoff ==
    \A c \in Calls :
        (calls[c].pc = "resolved" /\ ~calls[c].hit)
        => /\ calls[c].attempt < config.retryAttempts
           /\ calls[c].tries = calls[c].attempt + 1
           /\ Len(calls[c].waits) = calls[c].attempt
           /\ \A i \in 1..Len(calls[c].waits) : calls[c].waits[i] = 1000 * i

RetryLinearBackoffWitness ==
    \E c \in Calls :
        /\ calls[c].pc = "resolved" /\ ~calls[c].hit
        /\ config.retryAttempts = 3
        /\ calls[c].tries = 3
        /\ calls[c].waits = <<1000, 2000>>
        /\ calls[c].result = 1

\* C13: a request all of whose attempts fail rejects after exactly
\* retryAttempts transport attempts and retryAttempts - 1 backoff waits.
ExhaustionCount ==
    \A c \in Calls :
        calls[c].pc = "rejected"
        => /\ calls[c].tries = config.retryAttempts
           /\ calls[c].attempt = config.retryAttempts
           /\ Len(calls[c].waits) = config.retryAttempts - 1
           /\ calls[c].inflight = 0

ExhaustionCountWitness ==
    \E c \in Calls :
        /\ calls[c].pc = "rejected"
        /\ config.retryAttempts = 2
        /\ calls[c].tries = 2
        /\ calls[c].waits = <<1000>>

\* C14: the failure a request surfaces after its last attempt is a
\* RequestExhausted failure that carries the error of the last attempt.
ExhaustionError ==
    \A c \in Calls :
        calls[c].pc = "rejected"
        => /\ calls[c].error.kind = "RequestExhausted"
           /\ calls[c].error.cause = calls[c].lastError.kind
           /\ calls[c].error.attempt = config.retryAttempts

\* C15: a request that misses the cache, or does not use it, makes at least
\* 1 and at most retryAttempts transport attempts, numbered 1..retryAttempts.
AttemptBound ==
    [][\A c \in Calls :
          /\ calls'[c].tries <= config.retryAttempts
          /\ Issues(c) => calls'[c].tries \in 1..config.retryAttempts
          /\ (Starts(c) /\ ~(calls'[c].useCache /\ Fresh(calls'[c].key)))
             => calls'[c].pc = "fetch" /\ calls'[c].tries = 1
          /\ (calls'[c].pc \in {"resolved", "rejected"} /\ ~calls'[c].hit)
             => calls'[c].tries >= 1]_vars

AttemptBoundWitness ==
    \E c \in Calls :
        /\ calls[c].pc = "rejected"
        /\ calls[c].useCache
        /\ config.retryAttempts = MaxRetry
        /\ calls[c].tries = MaxRetry

\* C16: when an attempt succeeds, request stores the result under the key
\* exactly when useCache is set and returns it without another attempt; a
\* request without useCache neither reads nor writes the cache.
StoreOnSuccess ==
    [][\A c \in Calls :
          /\ (calls[c].pc = "json" /\ calls'[c].pc = "resolved")
             => /\ calls'[c].tries = calls[c].tries
                /\ IF calls[c].useCache
                   THEN /\ Has(cache', calls[c].key)
                        /\ Entry(cache', calls[c].key).value = calls'[c].result
                        /\ Entry(cache', calls[c].key).timestamp = now
                   ELSE cache' = cache
          /\ (calls'[c] # calls[c] /\ ~calls'[c].useCache)
             => /\ cache' = cache
                /\ calls'[c].reads = 0 /\ calls'[c].writes = 0]_vars

StoreOnSuccessWitness ==
    \E c \in Calls :
        /\ calls[c].pc = "resolved" /\ ~calls[c].hit /\ calls[c].useCache
        /\ calls[c].writes = 1
        /\ Has(cache, calls[c].key)
        /\ Entry(cache, calls[c].key).value = calls[c].result
        /\ calls[c].tries = 2

\* C17: attempt n + 1 of a request starts only after attempt n has failed and
\* the delay that follows it has elapsed, and a request never has more than
\* one transport attempt in flight.
SequentialAttempts ==
    [][\A c \in Calls :
          /\ calls'[c].inflight <= 1
          /\ (Issues(c) /\ calls'[c].tries > 1)
             => /\ calls[c].pc = "backoff"
                /\ calls[c].inflight = 0
                /\ calls[c].attempt = calls[c].tries
                /\ now >= calls[c].failedAt + 1000 * calls[c].attempt]_vars

SequentialAttemptsWitness ==
    \E c \in Calls :
        /\ calls[c].pc = "fetch"
        /\ calls[c].tries = 3
        /\ calls[c].inflight = 1
        /\ now = 3000

\* C18: an attempt is in flight for at most config.timeout: at that time it is
\* aborted and counts as a failed attempt of the retry loop; an attempt that
\* completes earlier leaves no abort timer behind.
AttemptTimeout ==
    [][\A c \in Calls :
          /\ Issues(c) => /\ calls'[c].timer.active
                          /\ calls'[c].timer.due = now + config.timeout
          /\ calls'[c].pc \in {"fetch", "json"}
             => calls'[c].timer.active /\ now' <= calls'[c].timer.due
          /\ calls'[c].pc \notin {"fetch", "json"} => ~calls'[c].timer.active
          /\ (calls[c].pc \in {"fetch", "json"} /\ now = calls[c].timer.due
                /\ calls'[c].pc \notin {"fetch", "json", "resolved"})
             => /\ calls'[c].attempt = calls[c].attempt + 1
                /\ calls'[c].pc \in {"backoff", "rejected"}]_vars

AttemptTimeoutWitness ==
    \E c \in Calls :
        /\ calls[c].lastError.kind = "abort"
        /\ calls[c].pc = "fetch"
        /\ calls[c].tries = 2

\* C19: every fetch issued while the credential provider holds a valid token
\* t carries Authorization: Bearer t, the first attempt and every retry.
BearerOnEveryAttempt ==
    [][\A c \in Calls :
          (Issues(c) /\ CredentialValid)
          => calls'[c].sent.authorization = "Bearer " \o auth.token]_vars

BearerOnEveryAttemptWitness ==
    \E c \in Calls :
        /\ calls[c].pc = "fetch"
        /\ calls[c].tries >= 2
        /\ calls[c].callerAuth = "Basic caller"
        /\ calls[c].sent.valid
        /\ calls[c].sent.authorization = "Bearer abc"

\* C20: a fetch issued while the provider has no token or an expired one
\* (expiresAt <= now) is still issued and the client adds no bearer header
\* to it: the Authorization header is the caller's own, if any.
NoBearerWhenInvalid ==
    [][\A c \in Calls :
          /\ (Issues(c) /\ ~CredentialValid)
             => /\ calls'[c].sent.authorization = calls'[c].callerAuth
                /\ calls'[c].sent.authorization \in CallerAuth
          /\ (Starts(c) /\ ~CredentialValid /\ calls'[c].pc # "resolved")
             => calls'[c].pc = "fetch"]_vars

NoBearerWhenInvalidWitness ==
    \E c \in Calls :
        /\ calls[c].pc = "fetch"
        /\ ~calls[c].sent.valid
        /\ calls[c].sent.token = "abc"
        /\ auth.expiresAt = now
        /\ calls[c].sent.authorization = "none"

\* ------------------------------------------------------- claims on the cache key
\* The bodies have the same fields with the same values, in any order.
SameLogicalBody(b1, b2) ==
    /\ b1.present = b2.present
    /\ {b1.fields[i] : i \in 1..Len(b1.fields)}
          = {b2.fields[i] : i \in 1..Len(b2.fields)}

SameTriple(r1, r2) ==
    r1.method = r2.method /\ r1.endpoint = r2.endpoint /\ r1.body = r2.body

\* C21: two request calls with the same method, the same endpoint and bodies
\* that have the same fields and values, in whatever order, compute the same
\* cache key.
KeyDeterminism ==
    \A i, j \in 1..2 :
        (reqs[i].pc # "new" /\ reqs[j].pc # "new"
            /\ reqs[i].method = reqs[j].method
            /\ reqs[i].endpoint = reqs[j].endpoint
            /\ SameLogicalBody(reqs[i].body, reqs[j].body))
        => reqs[i].key = reqs[j].key

\* C27: two requests that differ in method, endpoint or body compute
\* different cache keys, and a request with useCache returns only a response
\* that was fetched for its own (method, endpoint, body).
KeyInjectivity ==
    \A i, j \in 1..2 :
        /\ (reqs[i].pc # "new" /\ reqs[j].pc # "new"
               /\ ~SameTriple(reqs[i], reqs[j]))
           => reqs[i].key # reqs[j].key
        /\ (reqs[i].pc = "resolved" /\ reqs[i].from = j)
           => SameTriple(reqs[i], reqs[j])

\* ------------------------------------------------------- more claims on ApiClient
\* C22: request rejects only when retryAttempts attempts have failed; the
\* failure of attempt n < retryAttempts is followed by a backoff and then by
\* attempt n + 1, and the caller sees no error.
LocalRetry ==
    [][\A c \in Calls :
          /\ calls'[c].pc = "rejected"
             => calls'[c].attempt = config.retryAttempts
          /\ (calls'[c].attempt = calls[c].attempt + 1
                /\ calls'[c].attempt < config.retryAttempts)
             => calls'[c].pc = "backoff" /\ calls'[c].error = NoError
          /\ (calls[c].pc = "backoff" /\ calls'[c] # calls[c])
             => /\ calls'[c].pc = "fetch"
                /\ calls'[c].tries = calls[c].attempt + 1
                /\ calls'[c].error = NoError]_vars

LocalRetryWitness ==
    \E c \in Calls :
        /\ calls[c].pc = "backoff"
        /\ calls[c].attempt = 2
        /\ config.retryAttempts = 3
        /\ calls[c].lastError.kind = "json"
        /\ calls[c].error = NoError

\* C23: when timers fire, every request call that has started settles: it
\* resolves with a value or rejects with an error, and a call whose
\* retryAttempts attempts have failed is rejected.
Termination ==
    /\ \A c \in Calls :
          (calls[c].pc \in {"fetch", "json", "backoff"})
          ~> (calls[c].pc \in {"resolved", "rejected"})
    /\ [](\A c \in Calls :
            /\ calls[c].pc = "resolved" => calls[c].result \in Values
            /\ calls[c].pc = "rejected" => calls[c].error # NoError
            /\ calls[c].attempt = config.retryAttempts
               => calls[c].pc = "rejected")

TerminationWitness ==
    \E c \in Calls :
        /\ calls[c].pc = "rejected"
        /\ calls[c].error.kind = "abort"
        /\ config.retryAttempts = MaxRetry
        /\ config.timeout = LongestTimeout
        /\ now > MaxApiTicks * BackoffBase

\* C24: when two calls with the same key and useCache have both missed the
\* cache and both succeeded, each by its own transport attempts, the cache
\* holds one entry for the key and its value is the response of the call
\* whose attempt succeeded last.
LastWriterWins ==
    (Len(done) = 2 /\ calls[1].key = calls[2].key
        /\ calls[1].useCache /\ calls[2].useCache)
    => LET k == calls[1].key
       IN  /\ \A c \in RaceCalls :
                 calls[c].pc = "resolved" /\ ~calls[c].hit /\ calls[c].tries >= 1
           /\ Cardinality({i \in 1..Len(cache) : cache[i].key = k}) = 1
           /\ Entry(cache, k).value = calls[done[2]].result

LastWriterWinsWitness ==
    /\ done = <<2, 1>>
    /\ calls[1].result = 0 /\ calls[2].result = 1
    /\ calls[1].tries = 2 /\ calls[2].tries = 1
    /\ calls[1].key = calls[2].key
    /\ Entry(cache, calls[1].key).value = 0

\* ------------------------------------------------------- claims on the App
\* C25: when a registered route has been handled, the panel that was
\* displayed had its cleanup called before the target panel was initialized,
\* the target is the current panel, and no other panel is left initialized,
\* the panels initialized by their constructors included.
PanelTeardown ==
    app.nav.registered
    => /\ app.nav.cleaned = app.nav.shown
       /\ app.nav.initialized = KeyOfRoute(app.nav.path)
       /\ app.current = KeyOfRoute(app.nav.path)
       /\ \A p \in Panels : p # app.current => app.live[p] = 0

\* ------------------------------------------------------- more claims on the cache
\* C26: a get that returns a value leaves the cache as it was, keys, values,
\* timestamps and order, so that the entry the next set would evict is the
\* same as before the read; a get changes no entry other than the expired
\* one it deletes.
ReadLeavesCache ==
    last.op = "get"
    => /\ last.ret # Null
          => /\ cache = last.pre
             /\ evictOldest(cache) = evictOldest(last.pre)
       /\ cache = last.pre \/ cache = MapDelete(last.pre, last.key)

ReadLeavesCacheWitness ==
    /\ last.op = "get" /\ last.ret = 1
    /\ Len(cache) = 2
    /\ IndexOf(cache, last.key) = 1
    /\ Age(cache[1], last.at) = 1
    /\ cache[2].timestamp = last.at

\* ------------------------------------------------------- claims on ModuleLoader
\* C28: at most one import of a path is in flight, the callers waiting for a
\* path all wait for the result of the same import, and after clearCache a
\* path is not loaded until an import started after the clear has resolved.
SingleFlight ==
    \A path \in ModulePaths :
        /\ Cardinality({i \in loader.imports : i.path = path}) <= 1
        /\ \A c1, c2 \in loader.callers :
              (c1.path = path /\ c2.path = path) => c1.promise = c2.promise
        /\ loader.cleared[path] => ~isModuleLoaded(loader, path)

\* ------------------------------------------------------- claims on AuthenticationManager
\* C29: from the return of logout() until the next login, getToken() is
\* null, isAuthenticated() is false and no refresh timer is scheduled, also
\* when a refresh was in flight at the logout; and at most one refresh timer
\* is scheduled at any time.
LogoutFinal ==
    /\ Cardinality(refresh.timers) <= 1
    /\ refresh.loggedOut
       => /\ getToken(auth) = "null"
          /\ ~isAuthenticated(auth, now)
          /\ refresh.timers = {}

\* ------------------------------------------------------- claims on the test runner
\* C30: when a run of runAllTests completes, results holds one result per
\* registered test, in suite order then test order, a throwing test recorded
\* as failed and the tests after it run, also when a second run was started
\* while the first awaited an async test.
OneResultPerTest ==
    runner.completed
    => /\ Len(runner.results) = Len(Tests)
       /\ \A i \in 1..Len(Tests) :
             /\ i <= Len(runner.results)
             /\ runner.results[i] = runTest(i, runner.failing)

====
